---- MODULE Spec2Model ----
(***************************************************************************)
(* Figma-Context-MCP: the get_figma_data and download_figma_images tool    *)
(* handlers, the FigmaService methods they call (constructor, request,     *)
(* getFile, getNode, getImageFills, getImages, writeLogs) and the          *)
(* design-tree simplification engine (parseFigmaResponse).                 *)
(*                                                                         *)
(* The handler and the service are translated from the TypeScript source.  *)
(* The simplification engine (services/simplify-node-response) is not part *)
(* of the available source; its operators are written from sections 3      *)
(* and 4 of the specification and are marked as such below.                *)
(***************************************************************************)
EXTENDS Integers, Sequences, FiniteSets, TLC

\* ------------------------------------------------------------------------
\* Bounds of the model
\* ------------------------------------------------------------------------

\* Number of get_figma_data invocations in flight at once on one server.
NumInvocations == 2

\* Largest depth argument a caller supplies (depth ranges over 0..MaxDepthArg).
MaxDepthArg == 2

\* The deepest level the engine is asked to bound its walk at; the
\* documents' trees are three levels deep.
MaxEngineDepth == 3

\* Largest number of nodes in one download_figma_images call.
MaxNodes == 3

\* ------------------------------------------------------------------------
\* Values
\* ------------------------------------------------------------------------

\* An optional value is a sequence of length 0 (absent / undefined) or 1.
None == <<>>
Some(x) == <<x>>

EmptyFn == [x \in {} |-> x]

\* Style-bearing values as they occur in raw nodes.  Opacity is in units of
\* 1/10000.  S1 and S2 differ only in numeric noise and in a volatile id, so
\* they are structurally equal after normalization; S3 is a different value;
\* S4 is a shape the normalization rules do not cover.
S1 == [type |-> "SOLID", color |-> "red",  opacity |-> 5000, vid |-> "a"]
S2 == [type |-> "SOLID", color |-> "red",  opacity |-> 5001, vid |-> "b"]
S3 == [type |-> "SOLID", color |-> "blue", opacity |-> 5000, vid |-> "a"]
S4 == [shader |-> "noise", vid |-> "c"]
RawStyles == {S1, S2, S3, S4}

\* The style-bearing properties of a node, in the order they are interned.
StyleProps == <<"fills", "strokes">>

\* ------------------------------------------------------------------------
\* Style/Value Interner (specification section 4.1)
\* ------------------------------------------------------------------------

\* Rounding precision of numeric components, in units of 1/10000.
Precision == 100

VolatileFields == {"vid"}
NumericFields == {"opacity"}

Round(x) == ((2 * x + Precision) \div (2 * Precision)) * Precision

\* Strip volatile fields and round numeric components; a value of an
\* unsupported shape (no "type" field) is passed through verbatim.
Normalize(v) ==
  IF "type" \notin DOMAIN v THEN v
  ELSE [f \in (DOMAIN v) \ VolatileFields |->
          IF f \in NumericFields THEN Round(v[f]) ELSE v[f]]

\* The StyleKey of a normalized value: a deterministic, collision-free
\* function of the content.
KeyOf(nv) == [hash |-> nv]

\* Variant of CanonicalOf that skips normalization.
CanonicalOf_Raw(v) == v

\* The canonical form under which a raw value is keyed and stored.
CanonicalOf(v) == Normalize(v)

HasKey(table, k) == \E j \in 1..Len(table) : table[j].key = k

\* Variant of Intern that, for a key already in the table, replaces the
\* stored value by the value just given.
Intern_Replace(table, v) ==
  LET nv == CanonicalOf(v)
      k  == KeyOf(nv)
  IN IF HasKey(table, k)
     THEN [key |-> k,
           table |-> [j \in 1..Len(table) |->
                        IF table[j].key = k THEN [key |-> k, value |-> v]
                        ELSE table[j]]]
     ELSE [key |-> k, table |-> Append(table, [key |-> k, value |-> nv])]

\* intern(value) -> StyleKey: returns the key and the table after the call.
Intern(table, v) ==
  LET nv == CanonicalOf(v)
      k  == KeyOf(nv)
  IN IF HasKey(table, k)
     THEN [key |-> k, table |-> table]
     ELSE [key |-> k, table |-> Append(table, [key |-> k, value |-> nv])]

\* Intern every style-bearing property present on a node, in StyleProps order.
RECURSIVE InternProps(_, _, _, _)
InternProps(styles, j, keys, table) ==
  IF j > Len(StyleProps) THEN [keys |-> keys, table |-> table]
  ELSE LET p == StyleProps[j]
       IN IF p \in DOMAIN styles
          THEN LET r == Intern(table, styles[p])
               IN InternProps(styles, j + 1, keys @@ (p :> r.key), r.table)
          ELSE InternProps(styles, j + 1, keys, table)

\* ------------------------------------------------------------------------
\* Depth-limited tree walker and node simplifier (sections 4.2, 4.3)
\* ------------------------------------------------------------------------

\* Node kinds that carry no visual or semantic payload.  The specification
\* names none, so no kind is filtered on this ground.
NoPayloadKinds == {}

\* A node is kept unless its visibility flag is false or its kind has no payload.
Retained(n) == n.visible /\ n.type \notin NoPayloadKinds

WithinDepth(depth, maxDepth) == maxDepth = None \/ depth <= maxDepth[1]

\* Variant of JoinWalk that puts later siblings first.
JoinWalk_Reversed(head, tail) == tail \o head

\* The result of one child followed by the results of its later siblings.
JoinWalk(head, tail) == head \o tail

\* Walk(n, ...) gives the simplified nodes that n contributes to its parent's
\* child sequence (one node, or the promoted children of a skipped node, or
\* nothing beyond the depth bound) and the table after visiting n's subtree.
RECURSIVE Walk(_, _, _, _), WalkChildren(_, _, _, _, _), Promote(_, _, _, _)

\* Variant of Promote that drops a skipped node together with its subtree.
Promote_Drop(n, depth, maxDepth, table) == [nodes |-> <<>>, table |-> table]

\* What a skipped node contributes: its children's contributions (flattening).
Promote(n, depth, maxDepth, table) ==
  WalkChildren(n.children, 1, depth + 1, maxDepth, table)

Walk(n, depth, maxDepth, table) ==
  IF ~WithinDepth(depth, maxDepth) THEN [nodes |-> <<>>, table |-> table]
  ELSE IF ~Retained(n)
  THEN Promote(n, depth, maxDepth, table)
  ELSE LET s == InternProps(n.styles, 1, EmptyFn, table)
           c == WalkChildren(n.children, 1, depth + 1, maxDepth, s.table)
       IN [nodes |-> << [id |-> n.id, name |-> n.name, type |-> n.type,
                         styles |-> s.keys, children |-> c.nodes] >>,
           table |-> c.table]

WalkChildren(kids, j, depth, maxDepth, table) ==
  IF j > Len(kids) THEN [nodes |-> <<>>, table |-> table]
  ELSE LET h == Walk(kids[j], depth, maxDepth, table)
           t == WalkChildren(kids, j + 1, depth, maxDepth, h.table)
       IN [nodes |-> JoinWalk(h.nodes, t.nodes), table |-> t.table]

\* ------------------------------------------------------------------------
\* Metadata extractor and result assembler (sections 4.4, 4.5)
\* ------------------------------------------------------------------------

\* The document-level fields of a raw response.
MetaFields == {"name", "lastModified", "version", "thumbnailUrl"}

\* extractMetadata: the document-level fields that are present, verbatim.
ExtractMetadata(response) ==
  [f \in (DOMAIN response) \cap MetaFields |-> response[f]]

\* assemble: pure combination of metadata, forest and table.
Assemble(metadata, forest, table) ==
  metadata @@ [nodes |-> forest, globalVars |-> table]

\* The requested roots of a raw response, each present or absent: the
\* document of a whole-file response, or the subtree of every requested id
\* of a node-scoped response.
Roots(response) ==
  IF "document" \in DOMAIN response
  THEN << Some(response.document) >>
  ELSE [j \in 1..Len(response.nodes) |-> response.nodes[j].document]

RootAbsent == [isError |-> TRUE, message |-> <<"Cannot simplify response: root is absent">>]

\* parseFigmaResponse: the whole simplification run, with a table of its own.
\* A response that is not traversable fails fast with a descriptive cause.
ParseFigmaResponse(response, maxDepth) ==
  LET roots == Roots(response)
  IN IF \E j \in 1..Len(roots) : roots[j] = None
     THEN [ok |-> FALSE, error |-> RootAbsent]
     ELSE LET w == WalkChildren([j \in 1..Len(roots) |-> roots[j][1]],
                                1, 0, maxDepth, <<>>)
          IN [ok |-> TRUE,
              design |-> Assemble(ExtractMetadata(response), w.nodes, w.table)]

\* ------------------------------------------------------------------------
\* Documents held by the remote design-file API
\* ------------------------------------------------------------------------

NodeName(id) ==
  CASE id = "0:0" -> "Document"
    [] id = "1:1" -> "Header"
    [] id = "1:2" -> "Card"
    [] id = "1:3" -> "Footer"
    [] id = "2:1" -> "Title"
    [] id = "2:2" -> "Icon"
    [] OTHER      -> "Label"

NodeType(id) ==
  CASE id = "0:0" -> "DOCUMENT"
    [] id \in {"1:2", "2:1"} -> "FRAME"
    [] OTHER -> "RECTANGLE"

MkNode(id, hidden, sty, kids) ==
  [id |-> id, name |-> NodeName(id), type |-> NodeType(id),
   visible |-> id \notin hidden,
   styles |-> IF id \in DOMAIN sty THEN sty[id] ELSE EmptyFn,
   children |-> kids]

\* The node tree 0:0 -> [1:1, 1:2 -> [2:1 -> [3:1], 2:2], 1:3] with the nodes in
\* `hidden` invisible and the style-bearing properties `sty`.
Tree(hidden, sty) ==
  LET n31 == MkNode("3:1", hidden, sty, <<>>)
      n21 == MkNode("2:1", hidden, sty, <<n31>>)
      n22 == MkNode("2:2", hidden, sty, <<>>)
      n11 == MkNode("1:1", hidden, sty, <<>>)
      n12 == MkNode("1:2", hidden, sty, <<n21, n22>>)
      n13 == MkNode("1:3", hidden, sty, <<>>)
  IN MkNode("0:0", hidden, sty, <<n11, n12, n13>>)

DocMeta(thumb) ==
  [name |-> "Design System", lastModified |-> "2024-05-01", version |-> "42"]
  @@ (IF thumb THEN [thumbnailUrl |-> "https://thumb"] ELSE EmptyFn)

Document(hidden, sty, thumb) == DocMeta(thumb) @@ [document |-> Tree(hidden, sty)]

Styles(a, b, c) ==
  [id \in {"1:1", "2:2", "1:3", "3:1"} |->
     CASE id = "1:1" -> [fills |-> a]
       [] id = "2:2" -> [fills |-> b]
       [] id = "1:3" -> [fills |-> S1, strokes |-> c]
       [] OTHER      -> [strokes |-> S2]]

\* The documents the engine is exercised on.
EngineDocs ==
  { Document(hidden, Styles(a, b, c), TRUE) :
      hidden \in SUBSET {"1:1", "1:2", "2:1"},
      a \in RawStyles, b \in {S1, S2, S3}, c \in {S1, S3} }

\* The documents the server is run against.
ServiceDocs ==
  { Document({}, Styles(S1, S2, S3), TRUE),
    Document({"1:2"}, Styles(S3, S1, S1), TRUE),
    Document({"2:1"}, Styles(S2, S4, S3), FALSE) }

\* ------------------------------------------------------------------------
\* The remote API, as the fetch layer delivers it
\* ------------------------------------------------------------------------

\* The tree cut below `depthParam` levels, or whole without the parameter.
RECURSIVE Truncate(_, _)
Truncate(n, depthParam) ==
  IF depthParam = None THEN n
  ELSE IF depthParam[1] = 0 THEN [n EXCEPT !.children = <<>>]
  ELSE [n EXCEPT !.children =
          [j \in 1..Len(n.children) |->
             Truncate(n.children[j], Some(depthParam[1] - 1))]]

\* The node with the given id in the tree, if there is one.
RECURSIVE FindNode(_, _), FindIn(_, _, _)
FindNode(n, id) ==
  IF n.id = id THEN Some(n) ELSE FindIn(n.children, 1, id)
FindIn(kids, j, id) ==
  IF j > Len(kids) THEN None
  ELSE LET r == FindNode(kids[j], id)
       IN IF r # None THEN r ELSE FindIn(kids, j + 1, id)

DocFields(d) == [f \in (DOMAIN d) \cap MetaFields |-> d[f]]

\* GET /files/:key and GET /files/:key/nodes?ids=...: the response for an
\* endpoint.  A requested id that names no node comes back as null.
ApiResponse(d, endpoint) ==
  IF endpoint.path = "files"
  THEN DocFields(d) @@ [document |-> Truncate(d.document, endpoint.depth)]
  ELSE LET found == FindNode(d.document, endpoint.ids)
       IN DocFields(d) @@
          [nodes |-> << [id |-> endpoint.ids,
                         document |-> IF found = None THEN None
                                      ELSE Some(Truncate(found[1], endpoint.depth))] >>]

\* ------------------------------------------------------------------------
\* State
\* ------------------------------------------------------------------------

VARIABLES
  doc,           \* the document the remote API serves
  nodeEnv,       \* process.env.NODE_ENV
  cwdWritable,   \* whether the working directory can be written to
  outputFormat,  \* createServer's outputFormat: "yaml" or "json"
  logFiles,      \* logs/<name>: the text last written, if any
  pc,            \* per invocation: where its handler stands
  args,          \* per invocation: the tool arguments {nodeId, depth}
  calls,         \* per invocation: the FigmaService methods the handler called
  requests,      \* per invocation: the calls made to the fetch layer
  fetched,       \* per invocation: how the fetch settled, if it has
  parses,        \* per invocation: the parseFigmaResponse runs, by outcome
  design,        \* per invocation: the SimplifiedDesign the service returned
  thrown,        \* per invocation: the error travelling up to the handler
  responses,     \* per invocation: the tool results handed to the caller
  escaped,       \* per invocation: an exception left the handler
  authOptions,   \* the FigmaAuthOptions the service was constructed with
  apiKey,        \* FigmaService.apiKey
  oauthToken,    \* FigmaService.oauthToken
  useOAuth,      \* FigmaService.useOAuth
  headersSent,   \* the headers of every request the service has sent
  fillUrls,      \* remote API: the image references that have a URL
  renderable,    \* remote API: the node ids that can be rendered
  brokenFiles,   \* downloader: the file names whose download fails
  imgPc,         \* download_figma_images: where its handler stands
  imgNodes,      \* download_figma_images: the nodes argument
  imgRequests,   \* download_figma_images: the requests it has issued
  lookup,        \* getImageFills: how its lookup request settled, if it has
  renders,       \* getImages: per format, how its render request settled
  handed,        \* the calls made to downloadFigmaImage
  fillDownloads,   \* the promise getImageFills returned, once settled
  renderDownloads, \* the promise getImages returned, once settled
  imgResponses,  \* download_figma_images: the tool results
  engineIn,      \* engine run: the raw response
  engineDepth,   \* engine run: maxDepth
  engineOut      \* engine run: the result, once it has run

vars == << doc, nodeEnv, cwdWritable, outputFormat, logFiles, pc, args, calls, requests,
           fetched, parses, design, thrown, responses, escaped,
           authOptions, apiKey, oauthToken, useOAuth, headersSent,
           fillUrls, renderable, brokenFiles, imgPc, imgNodes, imgRequests,
           lookup, renders, handed, fillDownloads, renderDownloads, imgResponses,
           engineIn, engineDepth, engineOut >>

serverVars == << doc, nodeEnv, cwdWritable, outputFormat,
                 authOptions, apiKey, oauthToken, useOAuth,
                 fillUrls, renderable, brokenFiles >>
imageVars == << imgPc, imgNodes, imgRequests, lookup, renders, handed,
                fillDownloads, renderDownloads, imgResponses >>
engineVars == << engineIn, engineDepth, engineOut >>
invocationVars == << logFiles, pc, args, calls, requests, fetched, parses,
                     design, thrown, responses, escaped >>

Invocations == 1..NumInvocations

\* The arguments a caller can supply: nodeId absent, empty, naming a node of
\* the document, or naming none; depth absent or 0..MaxDepthArg.
NodeIdArgs == {None, Some(""), Some("1:2"), Some("9:9")}
DepthArgs == {None} \cup {Some(d) : d \in 0..MaxDepthArg}

\* What the fetch layer can reject with: an Error, or another thrown value.
FetchFailures ==
  { [isError |-> TRUE,  message |-> <<"Fetch failed with status 403">>],
    [isError |-> FALSE, message |-> <<"socket hang up">>] }

LogNames == {"figma-raw.yml", "figma-simplified.yml"}

\* ------------------------------------------------------------------------
\* FigmaService
\* ------------------------------------------------------------------------

\* JavaScript truthiness of an optional string and of an optional number.
TruthyString(s) == s # None /\ s[1] # ""
TruthyNumber(n) == n # None /\ n[1] # 0

\* The depth query parameter: `depth ? "depth=" + depth : ""`.
DepthParam(depth) == IF TruthyNumber(depth) THEN depth ELSE None

\* getFile's and getNode's endpoints.
FileEndpoint(depth) == [path |-> "files", ids |-> "", depth |-> DepthParam(depth)]
NodeEndpoint(nodeId, depth) ==
  [path |-> "nodes", ids |-> nodeId, depth |-> DepthParam(depth)]

EndpointOf(call) ==
  IF call.method = "getNode"
  THEN NodeEndpoint(call.nodeId, call.depth)
  ELSE FileEndpoint(call.depth)

\* request's catch: whatever the fetch layer threw is rethrown as an Error
\* whose message names the cause (error.message, or the value as a string).
RequestError(cause) ==
  [isError |-> TRUE,
   message |-> <<"Failed to make request to Figma API: ">> \o cause.message]

\* A string of the service's configuration and of the image tool is a
\* sequence of tokens; the empty string is <<>>.
OrEmpty(s) == IF s # None /\ s[1] # <<>> THEN s[1] ELSE <<>>
TruthyFlag(b) == b # None /\ b[1]

\* Variant of FigmaServiceConstructor that takes the useOAuth flag as given.
FigmaServiceConstructor_TrustFlag(opts) ==
  [apiKey |-> OrEmpty(opts.figmaApiKey),
   oauthToken |-> OrEmpty(opts.figmaOAuthToken),
   useOAuth |-> TruthyFlag(opts.useOAuth)]

\* constructor: apiKey = figmaApiKey || "", oauthToken = figmaOAuthToken || "",
\* useOAuth = !!useOAuth && !!this.oauthToken.
FigmaServiceConstructor(opts) ==
  [apiKey |-> OrEmpty(opts.figmaApiKey),
   oauthToken |-> OrEmpty(opts.figmaOAuthToken),
   useOAuth |-> TruthyFlag(opts.useOAuth) /\ OrEmpty(opts.figmaOAuthToken) # <<>>]

\* The service constructed with the given options.
Constructed(opts) ==
  LET service == FigmaServiceConstructor(opts)
  IN /\ authOptions = opts
     /\ apiKey = service.apiKey
     /\ oauthToken = service.oauthToken
     /\ useOAuth = service.useOAuth

\* request's headers: Content-Type and the authentication header.
RequestHeaders ==
  ("Content-Type" :> <<"application/json">>) @@
  (IF useOAuth
   THEN ("Authorization" :> (<<"Bearer ">> \o oauthToken))
   ELSE ("X-Figma-Token" :> apiKey))

YamlDump(value) == [yaml |-> value]

\* writeLogs: outside development nothing is written; in development the
\* file is written unless the working directory is not writable.
WriteLogs(files, name, value) ==
  IF nodeEnv # "development" THEN files
  ELSE IF ~cwdWritable THEN files
  ELSE [files EXCEPT ![name] = Some(YamlDump(value))]

\* ------------------------------------------------------------------------
\* The get_figma_data handler
\* ------------------------------------------------------------------------

\* Variant of ServiceCall that fetches the whole file whatever the arguments.
ServiceCall_AlwaysFile(nodeId, depth) ==
  [method |-> "getFile", nodeId |-> "", depth |-> depth]

\* `if (nodeId) getNode(fileKey, nodeId, depth) else getFile(fileKey, depth)`.
ServiceCall(nodeId, depth) ==
  IF TruthyString(nodeId)
  THEN [method |-> "getNode", nodeId |-> nodeId[1], depth |-> depth]
  ELSE [method |-> "getFile", nodeId |-> "", depth |-> depth]

\* Variant of SplitDesign that takes the metadata from the first root node
\* instead of from the design.
SplitDesign_NodeMeta(file) ==
  [metadata |-> IF Len(file.nodes) > 0
                THEN [f \in {"name"} |-> file.nodes[1].name]
                ELSE [f \in (DOMAIN file) \ {"nodes", "globalVars"} |-> file[f]],
   nodes |-> file.nodes,
   globalVars |-> file.globalVars]

\* Variant of SplitDesign that leaves the thumbnail out of the metadata.
SplitDesign_DropField(file) ==
  [metadata |-> [f \in (DOMAIN file) \ {"nodes", "globalVars", "thumbnailUrl"} |-> file[f]],
   nodes |-> file.nodes,
   globalVars |-> file.globalVars]

\* `const { nodes, globalVars, ...metadata } = file` and the result object.
SplitDesign(file) ==
  [metadata |-> [f \in (DOMAIN file) \ {"nodes", "globalVars"} |-> file[f]],
   nodes |-> file.nodes,
   globalVars |-> file.globalVars]

\* JSON.stringify(result, null, 2) or yaml.dump(result): the text, which
\* determines the format and the value.
Format(fmt, result) == [format |-> fmt, value |-> result]

SuccessResponse(file) ==
  [content |-> << [type |-> "text",
                   text |-> Format(outputFormat, SplitDesign(file))] >>]

\* `error instanceof Error ? error.message : JSON.stringify(error)`.
ErrorMessage(error) ==
  IF error.isError THEN error.message ELSE <<"{}">>

ErrorResponse(error) ==
  [isError |-> TRUE,
   content |-> << [type |-> "text",
                   text |-> [error |-> <<"Error fetching file: ">> \o ErrorMessage(error)]] >>]

\* The handler runs up to its first suspension: it picks getNode or getFile,
\* which builds its endpoint and hands one request to the fetch layer.
GetFigmaData(i, nodeId, depth) ==
  /\ pc[i] = "idle"
  /\ LET call == ServiceCall(nodeId, depth)
     IN /\ args' = [args EXCEPT ![i] = [nodeId |-> nodeId, depth |-> depth]]
        /\ calls' = [calls EXCEPT ![i] = Append(@, call)]
        /\ requests' = [requests EXCEPT ![i] = Append(@, EndpointOf(call))]
  /\ headersSent' = Append(headersSent, RequestHeaders)
  /\ pc' = [pc EXCEPT ![i] = "fetching"]
  /\ UNCHANGED << serverVars, engineVars, imageVars, logFiles, fetched, parses, design,
                  thrown, responses, escaped >>

\* The fetch layer resolves with the API's response to the request.
FetchResolve(i) ==
  /\ pc[i] = "fetching"
  /\ fetched' = [fetched EXCEPT ![i] =
                   Some([ok |-> TRUE,
                         value |-> ApiResponse(doc, requests[i][Len(requests[i])])])]
  /\ pc' = [pc EXCEPT ![i] = "resolved"]
  /\ UNCHANGED << serverVars, engineVars, imageVars, headersSent, logFiles, args, calls, requests,
                  parses, design, thrown, responses, escaped >>

\* The fetch layer gives up and rejects.
FetchReject(i, cause) ==
  /\ pc[i] = "fetching"
  /\ fetched' = [fetched EXCEPT ![i] = Some([ok |-> FALSE, value |-> cause])]
  /\ pc' = [pc EXCEPT ![i] = "rejected"]
  /\ UNCHANGED << serverVars, engineVars, imageVars, headersSent, logFiles, args, calls, requests,
                  parses, design, thrown, responses, escaped >>

\* Variant of GetFileResolved that parses the raw response last logged, when
\* there is one, instead of the response of its own request.
GetFileResolved_SharedRaw(i) ==
  /\ pc[i] = "resolved"
  /\ calls[i][1].method = "getFile"
  /\ LET own == fetched[i][1].value
         response == IF logFiles["figma-raw.yml"] # None
                     THEN logFiles["figma-raw.yml"][1].yaml ELSE own
         r == ParseFigmaResponse(response, None)
     IN /\ parses' = [parses EXCEPT ![i] = Append(@, r.ok)]
        /\ IF r.ok
           THEN /\ logFiles' = WriteLogs(WriteLogs(logFiles, "figma-raw.yml", own),
                                         "figma-simplified.yml", r.design)
                /\ design' = [design EXCEPT ![i] = Some(r.design)]
                /\ pc' = [pc EXCEPT ![i] = "returned"]
                /\ UNCHANGED thrown
           ELSE /\ thrown' = [thrown EXCEPT ![i] = Some(r.error)]
                /\ pc' = [pc EXCEPT ![i] = "thrown"]
                /\ UNCHANGED << logFiles, design >>
  /\ UNCHANGED << serverVars, engineVars, imageVars, headersSent, args, calls, requests, fetched,
                  responses, escaped >>

\* getFile after its request resolved: parse, then log the raw response and
\* the simplified one, and return; a parse error is logged and rethrown.
GetFileResolved(i) ==
  /\ pc[i] = "resolved"
  /\ calls[i][1].method = "getFile"
  /\ LET response == fetched[i][1].value
         r == ParseFigmaResponse(response, None)
     IN /\ parses' = [parses EXCEPT ![i] = Append(@, r.ok)]
        /\ IF r.ok
           THEN /\ logFiles' = WriteLogs(WriteLogs(logFiles, "figma-raw.yml", response),
                                         "figma-simplified.yml", r.design)
                /\ design' = [design EXCEPT ![i] = Some(r.design)]
                /\ pc' = [pc EXCEPT ![i] = "returned"]
                /\ UNCHANGED thrown
           ELSE /\ thrown' = [thrown EXCEPT ![i] = Some(r.error)]
                /\ pc' = [pc EXCEPT ![i] = "thrown"]
                /\ UNCHANGED << logFiles, design >>
  /\ UNCHANGED << serverVars, engineVars, imageVars, headersSent, args, calls, requests, fetched,
                  responses, escaped >>

\* getNode after its request resolved: log the raw response, parse, log the
\* simplified response and return; a parse error propagates.
GetNodeResolved(i) ==
  /\ pc[i] = "resolved"
  /\ calls[i][1].method = "getNode"
  /\ LET response == fetched[i][1].value
         r == ParseFigmaResponse(response, None)
         logged == WriteLogs(logFiles, "figma-raw.yml", response)
     IN /\ parses' = [parses EXCEPT ![i] = Append(@, r.ok)]
        /\ IF r.ok
           THEN /\ logFiles' = WriteLogs(logged, "figma-simplified.yml", r.design)
                /\ design' = [design EXCEPT ![i] = Some(r.design)]
                /\ pc' = [pc EXCEPT ![i] = "returned"]
                /\ UNCHANGED thrown
           ELSE /\ logFiles' = logged
                /\ thrown' = [thrown EXCEPT ![i] = Some(r.error)]
                /\ pc' = [pc EXCEPT ![i] = "thrown"]
                /\ UNCHANGED design
  /\ UNCHANGED << serverVars, engineVars, imageVars, headersSent, args, calls, requests, fetched,
                  responses, escaped >>

\* Variant of ServiceRejected that answers a rejection with a second request.
ServiceRejected_Retry(i) ==
  /\ pc[i] = "rejected"
  /\ requests' = [requests EXCEPT ![i] = Append(@, EndpointOf(calls[i][1]))]
  /\ headersSent' = Append(headersSent, RequestHeaders)
  /\ fetched' = [fetched EXCEPT ![i] = None]
  /\ pc' = [pc EXCEPT ![i] = "fetching"]
  /\ UNCHANGED << serverVars, engineVars, imageVars, logFiles, args, calls, parses,
                  design, thrown, responses, escaped >>

\* request's catch wraps the rejection; getFile's catch logs and rethrows it,
\* getNode lets it pass.  No second request is made.
ServiceRejected(i) ==
  /\ pc[i] = "rejected"
  /\ thrown' = [thrown EXCEPT ![i] = Some(RequestError(fetched[i][1].value))]
  /\ pc' = [pc EXCEPT ![i] = "thrown"]
  /\ UNCHANGED << serverVars, engineVars, imageVars, headersSent, logFiles, args, calls, requests,
                  fetched, parses, design, responses, escaped >>

\* The handler after the service returned: split, format, respond.
HandlerReturn(i) ==
  /\ pc[i] = "returned"
  /\ responses' = [responses EXCEPT ![i] = Append(@, SuccessResponse(design[i][1]))]
  /\ pc' = [pc EXCEPT ![i] = "done"]
  /\ UNCHANGED << serverVars, engineVars, imageVars, headersSent, logFiles, args, calls, requests,
                  fetched, parses, design, thrown, escaped >>

\* Variant of HandlerCatch that rethrows instead of responding.
HandlerCatch_Rethrow(i) ==
  /\ pc[i] = "thrown"
  /\ escaped' = [escaped EXCEPT ![i] = TRUE]
  /\ pc' = [pc EXCEPT ![i] = "done"]
  /\ UNCHANGED << serverVars, engineVars, imageVars, headersSent, logFiles, args, calls, requests,
                  fetched, parses, design, thrown, responses >>

\* The handler's catch: one error response, nothing rethrown.
HandlerCatch(i) ==
  /\ pc[i] = "thrown"
  /\ responses' = [responses EXCEPT ![i] = Append(@, ErrorResponse(thrown[i][1]))]
  /\ pc' = [pc EXCEPT ![i] = "done"]
  /\ UNCHANGED << serverVars, engineVars, imageVars, headersSent, logFiles, args, calls, requests,
                  fetched, parses, design, thrown, escaped >>

\* ------------------------------------------------------------------------
\* The image endpoints of the remote API and the downloader
\* ------------------------------------------------------------------------

LocalPath == <<"/assets/">>

FillUrl(imageRef) == <<"https://img/fill/">> \o imageRef
RenderUrl(nodeId, fileType) == <<"https://img/render/", nodeId, ".", fileType>>

\* GET /files/:key/images: the URL of every image reference that has one.
ImageFillsResponse == [meta |-> [images |-> [r \in fillUrls |-> Some(FillUrl(r))]]]

\* GET /images/:key?ids=...&format=...: per requested id the URL of its
\* rendering in that format, or null when the node cannot be rendered.
ImagesResponse(ids, fileType) ==
  [images |-> [id \in {ids[j] : j \in 1..Len(ids)} |->
                 IF id \in renderable THEN Some(RenderUrl(id, fileType)) ELSE None]]

DownloadError == [isError |-> TRUE, message |-> <<"Failed to download image">>]

\* downloadFigmaImage(fileName, localPath, imageUrl): the promise's outcome,
\* the path of the written file or a rejection.
DownloadFigmaImage(fileName, localPath, imageUrl) ==
  IF fileName \in brokenFiles
  THEN [ok |-> FALSE, value |-> DownloadError]
  ELSE [ok |-> TRUE, value |-> localPath \o fileName]

\* ------------------------------------------------------------------------
\* FigmaService.getImageFills and getImages
\* ------------------------------------------------------------------------

\* `map[key]`: the value under the key, or undefined.
MapGet(map, key) == IF key \in DOMAIN map THEN map[key] ELSE None

\* Truthiness of a string that may be undefined, null or empty.
TruthyText(u) == u # None /\ u[1] # <<>>

\* Promise.all: the values in order, or the rejection of an entry.
PromiseAll(entries) ==
  IF \E j \in 1..Len(entries) : ~entries[j].ok
  THEN LET j == CHOOSE k \in 1..Len(entries) : ~entries[k].ok
       IN [ok |-> FALSE, value |-> entries[j].value]
  ELSE [ok |-> TRUE, value |-> [j \in 1..Len(entries) |-> entries[j].value]]

\* The downloader calls a node list leads to under a URL map.
RECURSIVE DownloadCalls(_, _, _)
DownloadCalls(nodes, j, urlOf) ==
  IF j > Len(nodes) THEN <<>>
  ELSE (IF TruthyText(urlOf[j])
        THEN << [fileName |-> nodes[j].fileName, localPath |-> LocalPath,
                 imageUrl |-> urlOf[j][1]] >>
        ELSE <<>>)
       \o DownloadCalls(nodes, j + 1, urlOf)

FillsEndpoint == [path |-> "files/images", ids |-> <<>>, format |-> ""]

\* getImageFills after its lookup: per node, in order, "" when the image
\* reference has no URL, else the download of that URL; Promise.all of these.
ImageFillsUrls(nodes, images) ==
  [j \in 1..Len(nodes) |-> MapGet(images, nodes[j].imageRef)]

\* Variant of ImageFillsResult that leaves the nodes without a URL out.
ImageFillsResult_Filtered(nodes, images) ==
  LET downloads == DownloadCalls(nodes, 1, ImageFillsUrls(nodes, images))
  IN PromiseAll([j \in 1..Len(downloads) |->
                   DownloadFigmaImage(downloads[j].fileName, downloads[j].localPath,
                                      downloads[j].imageUrl)])

ImageFillsResult(nodes, images) ==
  LET urlOf == ImageFillsUrls(nodes, images)
  IN PromiseAll([j \in 1..Len(nodes) |->
                   IF ~TruthyText(urlOf[j])
                   THEN [ok |-> TRUE, value |-> <<>>]
                   ELSE DownloadFigmaImage(nodes[j].fileName, LocalPath, urlOf[j][1])])

\* The ids of the nodes asking for a format, in order.
RECURSIVE IdsOfType(_, _, _)
IdsOfType(nodes, j, fileType) ==
  IF j > Len(nodes) THEN <<>>
  ELSE (IF nodes[j].fileType = fileType THEN << nodes[j].nodeId >> ELSE <<>>)
       \o IdsOfType(nodes, j + 1, fileType)

ImagesEndpoint(ids, fileType) == [path |-> "images", ids |-> ids, format |-> fileType]

\* The render requests getImages issues: one per format some node asks for.
ImagesEndpoints(nodes) ==
  (IF IdsOfType(nodes, 1, "png") # <<>>
   THEN << ImagesEndpoint(IdsOfType(nodes, 1, "png"), "png") >> ELSE <<>>)
  \o
  (IF IdsOfType(nodes, 1, "svg") # <<>>
   THEN << ImagesEndpoint(IdsOfType(nodes, 1, "svg"), "svg") >> ELSE <<>>)

\* `{ ...f, ...l }`: the keys of both, l's value where both have the key.
Spread(f, l) == l @@ f

\* getImages after its render requests: the two maps are merged by node id
\* and every node is looked up in the merged map.
ImagesUrls(nodes, pngFiles, svgFiles) ==
  LET files == Spread(pngFiles, svgFiles)
  IN [j \in 1..Len(nodes) |-> MapGet(files, nodes[j].nodeId)]

\* The downloads of the nodes that have a URL (the others are filtered
\* out), in order; Promise.all of these.
ImagesResult(nodes, urlOf) ==
  LET downloads == DownloadCalls(nodes, 1, urlOf)
  IN PromiseAll([j \in 1..Len(downloads) |->
                   DownloadFigmaImage(downloads[j].fileName, downloads[j].localPath,
                                      downloads[j].imageUrl)])

\* ------------------------------------------------------------------------
\* The download_figma_images handler
\* ------------------------------------------------------------------------

\* `fileName.endsWith(".svg")`.
EndsWith(fileName, suffix) == Len(fileName) > 0 /\ fileName[Len(fileName)] = suffix

RECURSIVE ImageFills(_, _), RenderRequests(_, _)

\* `nodes.filter(({ imageRef }) => !!imageRef)`.
ImageFills(nodes, j) ==
  IF j > Len(nodes) THEN <<>>
  ELSE (IF TruthyText(nodes[j].imageRef)
        THEN << [nodeId |-> nodes[j].nodeId, imageRef |-> nodes[j].imageRef[1],
                 fileName |-> nodes[j].fileName] >>
        ELSE <<>>)
       \o ImageFills(nodes, j + 1)

\* `nodes.filter(({ imageRef }) => !imageRef).map(...)`: the file type is
\* svg for a file name ending in ".svg" and png otherwise.
RenderRequests(nodes, j) ==
  IF j > Len(nodes) THEN <<>>
  ELSE (IF ~TruthyText(nodes[j].imageRef)
        THEN << [nodeId |-> nodes[j].nodeId, fileName |-> nodes[j].fileName,
                 fileType |-> IF EndsWith(nodes[j].fileName, ".svg")
                              THEN "svg" ELSE "png"] >>
        ELSE <<>>)
       \o RenderRequests(nodes, j + 1)

\* `downloads.find((success) => !success)`: the first falsy entry, if any.
Find(downloads) ==
  IF \E j \in 1..Len(downloads) : downloads[j] = <<>>
  THEN Some(downloads[CHOOSE j \in 1..Len(downloads) :
                        /\ downloads[j] = <<>>
                        /\ \A k \in 1..(j - 1) : downloads[k] # <<>>])
  ELSE None

\* `!x` for what find returns: undefined or an entry.
Not(found) == found = None \/ found[1] = <<>>

\* `const saveSuccess = !downloads.find((success) => !success)`.
SaveSuccess(downloads) == Not(Find(downloads))

ImagesResponseText(downloads) ==
  IF SaveSuccess(downloads)
  THEN [head |-> "Success", count |-> Len(downloads), detail |-> downloads]
  ELSE [head |-> "Failed", count |-> 0, detail |-> <<>>]

DownloadsResponse(downloads) ==
  [content |-> << [type |-> "text", text |-> ImagesResponseText(downloads)] >>]

\* The handler's catch: `Error downloading images: ${error}`.
DownloadsErrorResponse(error) ==
  [isError |-> TRUE,
   content |-> << [type |-> "text",
                   text |-> [head |-> "Error downloading images", count |-> 0,
                             detail |-> <<"Error: ">> \o error.message]] >>]

Formats == {"png", "svg"}

\* What the fetch layer rejects an image request with.
ImageFetchFailures == { c \in FetchFailures : c.isError }

\* Whether getImages issued a render request for the format.
Issued(fileType) == IdsOfType(RenderRequests(imgNodes, 1), 1, fileType) # <<>>

\* The promises the handler awaits: both fulfilled, or one rejected.
BothFulfilled ==
  /\ fillDownloads # None /\ fillDownloads[1].ok
  /\ renderDownloads # None /\ renderDownloads[1].ok
Rejected(promise) == promise # None /\ ~promise[1].ok
HandlerReady == imgPc = "waiting" /\ (BothFulfilled \/ Rejected(fillDownloads) \/ Rejected(renderDownloads))

\* The handler runs up to its await: it splits the nodes, calls
\* getImageFills (which issues its lookup unless it has no node) and
\* getImages (which issues a render request per format asked for).
DownloadFigmaImages(nodes) ==
  /\ imgPc = "idle"
  /\ LET fills == ImageFills(nodes, 1)
         issued == (IF fills = <<>> THEN <<>> ELSE << FillsEndpoint >>)
                   \o ImagesEndpoints(RenderRequests(nodes, 1))
     IN /\ imgNodes' = nodes
        /\ imgRequests' = issued
        /\ headersSent' = headersSent \o [j \in 1..Len(issued) |-> RequestHeaders]
        /\ fillDownloads' = IF fills = <<>> THEN Some([ok |-> TRUE, value |-> <<>>])
                            ELSE None
        /\ renderDownloads' = IF ImagesEndpoints(RenderRequests(nodes, 1)) = <<>>
                              THEN Some([ok |-> TRUE, value |-> <<>>])
                              ELSE None
  /\ imgPc' = "waiting"
  /\ UNCHANGED << serverVars, engineVars, invocationVars, lookup, renders,
                  handed, imgResponses >>

\* The lookup request resolves: getImageFills starts its downloads and
\* settles with their results.
LookupResolve ==
  /\ imgPc # "idle" /\ ~HandlerReady
  /\ ImageFills(imgNodes, 1) # <<>>
  /\ lookup = None
  /\ LET fills == ImageFills(imgNodes, 1)
         images == ImageFillsResponse.meta.images
     IN /\ lookup' = Some([ok |-> TRUE, value |-> ImageFillsResponse])
        /\ handed' = handed \o DownloadCalls(fills, 1, ImageFillsUrls(fills, images))
        /\ fillDownloads' = Some(ImageFillsResult(fills, images))
  /\ UNCHANGED << serverVars, engineVars, invocationVars, headersSent, imgPc,
                  imgNodes, imgRequests, renders, renderDownloads, imgResponses >>

\* The lookup request is rejected: getImageFills rejects with request's error.
LookupReject(cause) ==
  /\ imgPc # "idle" /\ ~HandlerReady
  /\ ImageFills(imgNodes, 1) # <<>>
  /\ lookup = None
  /\ lookup' = Some([ok |-> FALSE, value |-> cause])
  /\ fillDownloads' = Some([ok |-> FALSE, value |-> RequestError(cause)])
  /\ UNCHANGED << serverVars, engineVars, invocationVars, headersSent, imgPc,
                  imgNodes, imgRequests, renders, handed, renderDownloads,
                  imgResponses >>

\* The images a settled or never issued render request stands for.
FilesOf(settled, fileType) ==
  IF settled[fileType] = None THEN EmptyFn ELSE settled[fileType][1].value.images

\* A render request resolves; once both formats are in, getImages merges
\* them, starts its downloads and settles with their results.
RenderResolve(fileType) ==
  /\ imgPc # "idle" /\ ~HandlerReady
  /\ Issued(fileType)
  /\ renders[fileType] = None
  /\ LET reqs == RenderRequests(imgNodes, 1)
         response == ImagesResponse(IdsOfType(reqs, 1, fileType), fileType)
         settled == [renders EXCEPT ![fileType] = Some([ok |-> TRUE, value |-> response])]
         complete == \A f \in Formats : Issued(f) => settled[f] # None /\ settled[f][1].ok
         urlOf == ImagesUrls(reqs, FilesOf(settled, "png"), FilesOf(settled, "svg"))
     IN /\ renders' = settled
        /\ IF complete /\ renderDownloads = None
           THEN /\ handed' = handed \o DownloadCalls(reqs, 1, urlOf)
                /\ renderDownloads' = Some(ImagesResult(reqs, urlOf))
           ELSE UNCHANGED << handed, renderDownloads >>
  /\ UNCHANGED << serverVars, engineVars, invocationVars, headersSent, imgPc,
                  imgNodes, imgRequests, lookup, fillDownloads, imgResponses >>

\* A render request is rejected: getImages rejects with request's error.
RenderReject(fileType, cause) ==
  /\ imgPc # "idle" /\ ~HandlerReady
  /\ Issued(fileType)
  /\ renders[fileType] = None
  /\ renders' = [renders EXCEPT ![fileType] = Some([ok |-> FALSE, value |-> cause])]
  /\ renderDownloads' = IF renderDownloads = None
                        THEN Some([ok |-> FALSE, value |-> RequestError(cause)])
                        ELSE renderDownloads
  /\ UNCHANGED << serverVars, engineVars, invocationVars, headersSent, imgPc,
                  imgNodes, imgRequests, lookup, handed, fillDownloads,
                  imgResponses >>

\* Both promises are fulfilled: the handler joins the two lists and answers
\* "Success, ..." or "Failed".
DownloadsReturn ==
  /\ imgPc = "waiting"
  /\ BothFulfilled
  /\ imgResponses' = Append(imgResponses,
                            DownloadsResponse(fillDownloads[1].value
                                              \o renderDownloads[1].value))
  /\ imgPc' = "done"
  /\ UNCHANGED << serverVars, engineVars, invocationVars, headersSent, imgNodes,
                  imgRequests, lookup, renders, handed, fillDownloads,
                  renderDownloads >>

\* One of the promises is rejected: the handler's catch answers with the error.
DownloadsCatch ==
  /\ imgPc = "waiting"
  /\ \/ /\ Rejected(fillDownloads)
        /\ imgResponses' = Append(imgResponses,
                                  DownloadsErrorResponse(fillDownloads[1].value))
     \/ /\ Rejected(renderDownloads)
        /\ imgResponses' = Append(imgResponses,
                                  DownloadsErrorResponse(renderDownloads[1].value))
  /\ imgPc' = "done"
  /\ UNCHANGED << serverVars, engineVars, invocationVars, headersSent, imgNodes,
                  imgRequests, lookup, renders, handed, fillDownloads,
                  renderDownloads >>

\* download_figma_images, from the call to the tool result, with the nodes
\* argument drawn from the given set.
ServeImages(nodeLists) ==
  \/ \E nodes \in nodeLists : DownloadFigmaImages(nodes)
  \/ LookupResolve
  \/ \E cause \in ImageFetchFailures : LookupReject(cause)
  \/ \E f \in Formats : RenderResolve(f)
  \/ \E f \in Formats, cause \in ImageFetchFailures : RenderReject(f, cause)
  \/ DownloadsReturn
  \/ DownloadsCatch

\* ------------------------------------------------------------------------
\* The server: invocations in flight on one FigmaService
\* ------------------------------------------------------------------------

NoArgs == [nodeId |-> None, depth |-> None]

IdleInvocations ==
  /\ logFiles = [n \in LogNames |-> None]
  /\ pc = [i \in Invocations |-> "idle"]
  /\ args = [i \in Invocations |-> NoArgs]
  /\ calls = [i \in Invocations |-> <<>>]
  /\ requests = [i \in Invocations |-> <<>>]
  /\ fetched = [i \in Invocations |-> None]
  /\ parses = [i \in Invocations |-> <<>>]
  /\ design = [i \in Invocations |-> None]
  /\ thrown = [i \in Invocations |-> None]
  /\ responses = [i \in Invocations |-> <<>>]
  /\ escaped = [i \in Invocations |-> FALSE]

\* The service constructed with a personal access token.
PersonalToken ==
  [figmaApiKey |-> Some(<<"figd_key">>), figmaOAuthToken |-> None, useOAuth |-> None]

\* The image tool before its call, no request sent yet.
IdleImages ==
  /\ headersSent = <<>>
  /\ imgPc = "idle"
  /\ imgNodes = <<>>
  /\ imgRequests = <<>>
  /\ lookup = None
  /\ renders = [f \in Formats |-> None]
  /\ handed = <<>>
  /\ fillDownloads = None
  /\ renderDownloads = None
  /\ imgResponses = <<>>

\* A remote API without images, while the image tool is not looked at.
NoImages == fillUrls = {} /\ renderable = {} /\ brokenFiles = {}

\* The engine's variables while the server is looked at.
EngineAtRest ==
  /\ engineIn = ApiResponse(doc, FileEndpoint(None))
  /\ engineDepth = None
  /\ engineOut = None

\* get_figma_data, from the call to the tool result, for invocation i with
\* arguments drawn from the given set.
Serve(i, argSet) ==
  \/ \E a \in argSet : GetFigmaData(i, a.nodeId, a.depth)
  \/ FetchResolve(i)
  \/ \E cause \in FetchFailures : FetchReject(i, cause)
  \/ GetFileResolved(i)
  \/ GetNodeResolved(i)
  \/ ServiceRejected(i)
  \/ HandlerReturn(i)
  \/ HandlerCatch(i)

\* One invocation, over every document, configuration and argument.
Init ==
  /\ doc \in ServiceDocs
  /\ nodeEnv \in {"production", "development"}
  /\ cwdWritable \in BOOLEAN
  /\ outputFormat \in {"yaml", "json"}
  /\ Constructed(PersonalToken)
  /\ NoImages
  /\ IdleInvocations
  /\ IdleImages
  /\ EngineAtRest

Next == Serve(1, [nodeId : NodeIdArgs, depth : DepthArgs])

Spec == Init /\ [][Next]_vars

\* NumInvocations invocations in flight at once, their steps interleaved.
ServerConfigs ==
  { [nodeEnv |-> "production",  cwdWritable |-> TRUE,  outputFormat |-> "yaml"],
    [nodeEnv |-> "development", cwdWritable |-> TRUE,  outputFormat |-> "json"],
    [nodeEnv |-> "development", cwdWritable |-> FALSE, outputFormat |-> "yaml"] }

\* The calls in flight: the whole file, the whole file to depth 1, node 1:2
\* to depth 1, and a node the document does not have.
ServerArgs ==
  { [nodeId |-> None,        depth |-> None],
    [nodeId |-> None,        depth |-> Some(1)],
    [nodeId |-> Some("1:2"), depth |-> Some(1)],
    [nodeId |-> Some("9:9"), depth |-> None] }

InitServer ==
  /\ doc = Document({"2:1"}, Styles(S1, S2, S3), TRUE)
  /\ \E c \in ServerConfigs :
       /\ nodeEnv = c.nodeEnv
       /\ cwdWritable = c.cwdWritable
       /\ outputFormat = c.outputFormat
  /\ Constructed(PersonalToken)
  /\ NoImages
  /\ IdleInvocations
  /\ IdleImages
  /\ EngineAtRest

NextServer == \E i \in Invocations : Serve(i, ServerArgs)

SpecServer == InitServer /\ [][NextServer]_vars

\* ------------------------------------------------------------------------
\* The engine on its own: one simplification run per raw response
\* ------------------------------------------------------------------------

EngineEndpoints ==
  { FileEndpoint(None), NodeEndpoint("1:2", None), NodeEndpoint("9:9", None) }

EngineInputs == { ApiResponse(d, e) : d \in EngineDocs, e \in EngineEndpoints }

EngineDepths == {None} \cup {Some(d) : d \in 0..MaxEngineDepth}

\* One run of the engine on the raw response, with the depth bound.
EngineRun ==
  /\ engineOut = None
  /\ engineOut' = Some(ParseFigmaResponse(engineIn, engineDepth))
  /\ UNCHANGED << serverVars, invocationVars, imageVars, headersSent,
                  engineIn, engineDepth >>

InitEngine ==
  /\ doc = Document({}, Styles(S1, S2, S3), TRUE)
  /\ nodeEnv = "production"
  /\ cwdWritable = TRUE
  /\ outputFormat = "yaml"
  /\ Constructed(PersonalToken)
  /\ NoImages
  /\ IdleInvocations
  /\ IdleImages
  /\ engineIn \in EngineInputs
  /\ engineDepth \in EngineDepths
  /\ engineOut = None

NextEngine == EngineRun

SpecEngine == InitEngine /\ [][NextEngine]_vars

\* ------------------------------------------------------------------------
\* The image tool on its own: one download_figma_images invocation
\* ------------------------------------------------------------------------

\* The nodes a caller asks for: two image fills, one node to render as svg
\* and as png, and a node with a blank imageRef and no extension.
HeroFill == [nodeId |-> "1:1", imageRef |-> Some(<<"refA">>), fileName |-> <<"hero", ".png">>]
BgFill   == [nodeId |-> "1:3", imageRef |-> Some(<<"refB">>), fileName |-> <<"bg", ".png">>]
IconSvg  == [nodeId |-> "2:2", imageRef |-> None, fileName |-> <<"icon", ".svg">>]
IconPng  == [nodeId |-> "2:2", imageRef |-> None, fileName |-> <<"icon", ".png">>]
TitlePng == [nodeId |-> "2:1", imageRef |-> Some(<<>>), fileName |-> <<"title">>]
ImageNodes == {HeroFill, BgFill, IconSvg, IconPng, TitlePng}

\* Every list of up to MaxNodes different nodes, in every order.
NodeLists ==
  UNION { { l \in [1..n -> ImageNodes] : \A j, k \in 1..n : l[j] = l[k] => j = k } :
          n \in 0..MaxNodes }

ImageRefs == {<<"refA">>, <<"refB">>}
RenderIds == {"2:2", "2:1"}
BreakableFiles == {<<"hero", ".png">>, <<"icon", ".svg">>}

InitImages ==
  /\ doc = Document({}, Styles(S1, S2, S3), TRUE)
  /\ nodeEnv = "production"
  /\ cwdWritable = TRUE
  /\ outputFormat = "yaml"
  /\ Constructed(PersonalToken)
  /\ fillUrls \in SUBSET ImageRefs
  /\ renderable \in SUBSET RenderIds
  /\ brokenFiles \in SUBSET BreakableFiles
  /\ IdleInvocations
  /\ IdleImages
  /\ EngineAtRest

NextImages == ServeImages(NodeLists)

SpecImages == InitImages /\ [][NextImages]_vars

\* ------------------------------------------------------------------------
\* One service under every authentication option, serving both tools
\* ------------------------------------------------------------------------

\* The options a service is constructed with: each string undefined, empty
\* or set; the flag undefined, false or true.
AuthOptions ==
  [figmaApiKey : {None, Some(<<>>), Some(<<"figd_key">>)},
   figmaOAuthToken : {None, Some(<<>>), Some(<<"oauth_tok">>)},
   useOAuth : {None, Some(FALSE), Some(TRUE)}]

AuthArgs ==
  { [nodeId |-> None,        depth |-> None],
    [nodeId |-> Some("1:2"), depth |-> Some(1)] }

AuthNodeLists == { <<HeroFill>>, <<IconPng, IconSvg>>, <<BgFill, IconSvg, TitlePng>> }

InitAuth ==
  /\ doc = Document({}, Styles(S1, S2, S3), TRUE)
  /\ nodeEnv = "production"
  /\ cwdWritable = TRUE
  /\ outputFormat = "yaml"
  /\ \E opts \in AuthOptions : Constructed(opts)
  /\ fillUrls = ImageRefs
  /\ renderable = RenderIds
  /\ brokenFiles = {}
  /\ IdleInvocations
  /\ IdleImages
  /\ EngineAtRest

\* A get_figma_data invocation and a download_figma_images invocation in
\* flight on the one service, their steps interleaved.
NextAuth ==
  \/ Serve(1, AuthArgs)
  \/ ServeImages(AuthNodeLists)

SpecAuth == InitAuth /\ [][NextAuth]_vars

\* ------------------------------------------------------------------------
\* Reading trees
\* ------------------------------------------------------------------------

\* Every raw node of the subtree of n with its depth below the walk's start.
RECURSIVE RawEntries(_, _)
RawEntries(n, depth) ==
  {[node |-> n, depth |-> depth]} \cup
  UNION { RawEntries(n.children[j], depth + 1) : j \in 1..Len(n.children) }

\* Every simplified node of a forest.
RECURSIVE SimpleNodes(_)
SimpleNodes(forest) ==
  UNION { {forest[j]} \cup SimpleNodes(forest[j].children) : j \in 1..Len(forest) }

IdsOf(nodes) == [j \in 1..Len(nodes) |-> nodes[j].id]
IdSet(nodes) == { n.id : n \in nodes }

\* The ids a sequence of raw siblings at `depth` contributes to the child
\* sequence above it: a visible sibling itself, an invisible one its own
\* contribution, nothing beyond the depth bound.
RECURSIVE PromotedIds(_, _, _, _)
PromotedIds(kids, j, depth, maxDepth) ==
  IF j > Len(kids) \/ ~WithinDepth(depth, maxDepth) THEN <<>>
  ELSE (IF kids[j].visible THEN << kids[j].id >>
        ELSE PromotedIds(kids[j].children, 1, depth + 1, maxDepth))
       \o PromotedIds(kids, j + 1, depth, maxDepth)

\* The engine run has produced a design.
EngineDone == engineOut # None /\ engineOut[1].ok
EngineDesign == engineOut[1].design
EngineRoots == LET r == Roots(engineIn) IN [j \in 1..Len(r) |-> r[j][1]]
EngineRaw == UNION { RawEntries(EngineRoots[j], 0) : j \in 1..Len(EngineRoots) }
EngineSimple == SimpleNodes(EngineDesign.nodes)

\* The raw node a simplified node originates from.
RawOf(o) == (CHOOSE e \in EngineRaw : e.node.id = o.id).node

\* The style-bearing properties of the output, each with its source value
\* and the key the simplified node holds for it.
EngineProps ==
  UNION { { [id |-> o.id, prop |-> p, value |-> RawOf(o).styles[p], key |-> o.styles[p]] :
              p \in DOMAIN RawOf(o).styles \cap DOMAIN o.styles }
          : o \in EngineSimple }

EntriesWithKey(table, k) == { j \in 1..Len(table) : table[j].key = k }

\* ------------------------------------------------------------------------
\* C1  Dedup idempotence
\* ------------------------------------------------------------------------

\* C1: within one simplification run, every style-bearing property of an
\* output node holds a key; two properties (on any nodes) whose source values
\* are equal after normalization hold the same key, and the table has exactly
\* one entry for it, the normalized value.  Interning, after the run, any two
\* values that are equal after normalization (in either order, repeatedly)
\* returns one key, adds at most one entry, and changes nothing once the
\* value is in the table.
C1_DedupIdempotence ==
  EngineDone =>
    LET T == EngineDesign.globalVars
    IN /\ \A o \in EngineSimple : DOMAIN o.styles = DOMAIN RawOf(o).styles
       /\ \A a, b \in EngineProps :
            Normalize(a.value) = Normalize(b.value) =>
              /\ a.key = b.key
              /\ Cardinality(EntriesWithKey(T, a.key)) = 1
              /\ \A j \in EntriesWithKey(T, a.key) : T[j].value = Normalize(a.value)
              /\ Cardinality({ j \in 1..Len(T) : T[j].value = Normalize(a.value) }) = 1
       /\ \A v1, v2 \in RawStyles :
            Normalize(v1) = Normalize(v2) =>
              LET r1 == Intern(T, v1)
                  r2 == Intern(r1.table, v2)
                  r3 == Intern(r2.table, v1)
              IN /\ r2.key = r1.key /\ r3.key = r1.key
                 /\ r2.table = r1.table /\ r3.table = r1.table
                 /\ Cardinality(EntriesWithKey(r1.table, r1.key)) = 1
                 /\ (HasKey(T, r1.key) => r1.table = T)
                 /\ Len(r1.table) <= Len(T) + 1

\* Two different nodes carry raw values that differ but are equal after
\* normalization, and the run has given both one key.
C1_Witness ==
  /\ EngineDone
  /\ \E a, b \in EngineProps :
       /\ a.id # b.id
       /\ a.value # b.value
       /\ Normalize(a.value) = Normalize(b.value)
       /\ a.key = b.key
       /\ Len(EngineDesign.globalVars) >= 2

\* ------------------------------------------------------------------------
\* C2  Order preservation
\* ------------------------------------------------------------------------

\* A retained raw node within the depth bound all of whose children are
\* visible and within the depth bound.
AllChildrenKept(e) ==
  /\ Retained(e.node)
  /\ WithinDepth(e.depth, engineDepth)
  /\ \A j \in 1..Len(e.node.children) :
       e.node.children[j].visible /\ WithinDepth(e.depth + 1, engineDepth)

Started(i) == pc[i] # "idle"
Done(i) == pc[i] = "done"
FetchFailed(i) == fetched[i] # None /\ ~fetched[i][1].ok
FetchSucceeded(i) == fetched[i] # None /\ fetched[i][1].ok
ParseFailed(i) == \E j \in 1..Len(parses[i]) : ~parses[i][j]
IsErrorResponse(r) == "isError" \in DOMAIN r
Succeeded(i) ==
  Done(i) /\ Len(responses[i]) = 1 /\ ~IsErrorResponse(responses[i][1])

\* The {metadata, nodes, globalVars} object a success response carries.
ResultOf(i) == responses[i][1].content[1].text.value

\* The raw node the caller asked for: the node named by a usable nodeId,
\* else the document.
RequestedRoot(a) ==
  IF TruthyString(a.nodeId) THEN FindNode(doc.document, a.nodeId[1])
  ELSE Some(doc.document)

\* The ids of the raw nodes more than d levels below root.
DeeperIds(root, d) == { e.node.id : e \in { x \in RawEntries(root, 0) : x.depth > d } }

OutputIds(i) == IdSet(SimpleNodes(ResultOf(i).nodes))

\* ------------------------------------------------------------------------
\* C4  Depth bound
\* ------------------------------------------------------------------------

\* C4: for every caller-supplied depth d, d = 0 included, no simplified node
\* of the returned output originates from a raw node more than d levels below
\* the requested root.
C4_DepthBound ==
  \A i \in Invocations :
    (Succeeded(i) /\ args[i].depth # None /\ RequestedRoot(args[i]) # None) =>
      OutputIds(i) \cap DeeperIds(RequestedRoot(args[i])[1], args[i].depth[1]) = {}

\* The same bound for the depths the service forwards to the API (d >= 1).
DepthBoundForwarded ==
  \A i \in Invocations :
    (Succeeded(i) /\ TruthyNumber(args[i].depth) /\ RequestedRoot(args[i]) # None) =>
      OutputIds(i) \cap DeeperIds(RequestedRoot(args[i])[1], args[i].depth[1]) = {}

\* ------------------------------------------------------------------------
\* C5  Round-trip metadata scope
\* ------------------------------------------------------------------------

\* A node-scoped request: the handler was given a usable nodeId.
NodeScoped(i) == Started(i) /\ TruthyString(args[i].nodeId)

Sections == {"metadata", "nodes", "globalVars"}

\* C6: a success response is one text item whose value has exactly the
\* sections metadata, nodes and globalVars; nodes and globalVars are the
\* SimplifiedDesign's own, metadata is every other field of it with its
\* value, and the sections put together again are the SimplifiedDesign.
C6_OutputSplit ==
  \A i \in Invocations :
    Succeeded(i) =>
      LET file == design[i][1]
          out == ResultOf(i)
      IN /\ Len(responses[i][1].content) = 1
         /\ responses[i][1].content[1].type = "text"
         /\ responses[i][1].content[1].text.format = outputFormat
         /\ DOMAIN out = Sections
         /\ out.nodes = file.nodes
         /\ out.globalVars = file.globalVars
         /\ DOMAIN out.metadata = (DOMAIN file) \ {"nodes", "globalVars"}
         /\ \A f \in DOMAIN out.metadata : out.metadata[f] = file[f]
         /\ out.metadata @@ [nodes |-> out.nodes, globalVars |-> out.globalVars] = file

\* A design with a thumbnail, shared style keys and children was split.
C6_Witness ==
  \E i \in Invocations :
    /\ Succeeded(i)
    /\ "thumbnailUrl" \in DOMAIN design[i][1]
    /\ Len(ResultOf(i).globalVars) >= 2
    /\ Len(ResultOf(i).nodes) = 1
    /\ DOMAIN ResultOf(i).metadata = MetaFields

\* ------------------------------------------------------------------------
\* C7  Terminal error, no partial result
\* ------------------------------------------------------------------------

\* The text an error response carries for the failure of invocation i.
FailureText(i) ==
  IF FetchFailed(i)
  THEN <<"Error fetching file: ", "Failed to make request to Figma API: ">>
         \o fetched[i][1].value.message
  ELSE <<"Error fetching file: ">> \o RootAbsent.message

\* C7: an invocation never produces more than one response and no exception
\* leaves the handler; a finished invocation has produced exactly one; when
\* the fetch or the simplification failed, no success response is ever
\* produced and the one response is flagged isError, with a single text item
\* that names the cause and holds no metadata, nodes or globalVars section.
C7_TerminalError ==
  \A i \in Invocations :
    /\ Len(responses[i]) <= 1
    /\ ~escaped[i]
    /\ Done(i) => Len(responses[i]) = 1
    /\ (FetchFailed(i) \/ ParseFailed(i)) =>
         /\ design[i] = None
         /\ pc[i] # "returned"
         /\ \A j \in 1..Len(responses[i]) :
              LET r == responses[i][j]
              IN /\ IsErrorResponse(r) /\ r.isError
                 /\ Len(r.content) = 1
                 /\ r.content[1].type = "text"
                 /\ DOMAIN r.content[1].text = {"error"}
                 /\ r.content[1].text.error = FailureText(i)

\* One invocation ended after its fetch was rejected with a non-Error value,
\* or after the simplification failed on an absent root.
C7_Witness ==
  \E i \in Invocations :
    /\ Done(i)
    /\ Len(responses[i]) = 1
    /\ \/ FetchFailed(i) /\ ~fetched[i][1].value.isError
       \/ ParseFailed(i)

\* ------------------------------------------------------------------------
\* C8  Invocation independence
\* ------------------------------------------------------------------------

\* The request invocation i's own arguments lead to.
OwnRequest(i) ==
  IF args[i].nodeId # None /\ args[i].nodeId[1] # ""
  THEN NodeEndpoint(args[i].nodeId[1], args[i].depth)
  ELSE FileEndpoint(args[i].depth)

\* The tool result that follows from how invocation i's own fetch settled.
OwnOutcome(i) ==
  IF FetchSucceeded(i)
  THEN LET r == ParseFigmaResponse(fetched[i][1].value, None)
       IN IF r.ok THEN SuccessResponse(r.design) ELSE ErrorResponse(r.error)
  ELSE ErrorResponse(RequestError(fetched[i][1].value))

\* C8: with several invocations in flight, in every interleaving, each
\* invocation's raw response is the API's answer to its own request, the
\* design its service call returns is the simplification of that raw
\* response alone, and its tool result is the one that follows from its own
\* fetch outcome, whatever the other invocations fetched, interned or logged.
C8_Independence ==
  \A i \in Invocations :
    /\ FetchSucceeded(i) => fetched[i][1].value = ApiResponse(doc, OwnRequest(i))
    /\ design[i] # None =>
         design[i][1] = ParseFigmaResponse(fetched[i][1].value, None).design
    /\ Done(i) => responses[i] = << OwnOutcome(i) >>

\* Two invocations got different results while the log files, written in
\* development, hold what the other invocation fetched and produced.
C8_Witness ==
  \E i, j \in Invocations :
    /\ i # j
    /\ Succeeded(i) /\ Succeeded(j)
    /\ ResultOf(i) # ResultOf(j)
    /\ calls[i][1].method = "getFile"
    /\ logFiles["figma-raw.yml"] = Some(YamlDump(fetched[j][1].value))
    /\ logFiles["figma-simplified.yml"] = Some(YamlDump(design[j][1]))

\* ------------------------------------------------------------------------
\* C9  No retry or re-request above the transport
\* ------------------------------------------------------------------------

\* C9: an invocation calls one service method, which hands exactly one
\* request to the fetch layer; the simplification runs at most once and only
\* once that request has resolved (exactly once when the invocation ends
\* after a resolved request); after a rejected request the simplification
\* never runs, no further request is made and the invocation ends in an error.
C9_NoRetry ==
  \A i \in Invocations :
    /\ Len(calls[i]) <= 1 /\ Len(requests[i]) <= 1 /\ Len(parses[i]) <= 1
    /\ Started(i) =>
         /\ Len(calls[i]) = 1 /\ Len(requests[i]) = 1
         /\ requests[i][1] = OwnRequest(i)
    /\ Len(parses[i]) = 1 => FetchSucceeded(i)
    /\ (Done(i) /\ FetchSucceeded(i)) => Len(parses[i]) = 1
    /\ FetchFailed(i) =>
         /\ parses[i] = <<>>
         /\ pc[i] \in {"rejected", "thrown", "done"}
         /\ Done(i) => IsErrorResponse(responses[i][1])

\* An invocation ended in an error after its single request was rejected.
C9_Witness ==
  \E i \in Invocations :
    /\ Done(i) /\ FetchFailed(i)
    /\ Len(requests[i]) = 1
    /\ parses[i] = <<>>
    /\ IsErrorResponse(responses[i][1])

\* ------------------------------------------------------------------------
\* C10  Node-scope routing
\* ------------------------------------------------------------------------

\* C10 as stated: getNode with that id whenever a nodeId argument is
\* provided, getFile only when none is provided, exactly one of the two.
C10_Routing_Original ==
  \A i \in Invocations :
    Started(i) =>
      /\ Len(calls[i]) = 1
      /\ args[i].nodeId # None =>
           (calls[i][1].method = "getNode" /\ calls[i][1].nodeId = args[i].nodeId[1])
      /\ calls[i][1].method = "getFile" => args[i].nodeId = None

\* C10, amended: getNode with that id whenever a non-empty nodeId argument is
\* provided, getFile when nodeId is absent or the empty string; exactly one
\* of the two is called per invocation, with the caller's depth.
C10_Routing ==
  \A i \in Invocations :
    /\ Len(calls[i]) <= 1
    /\ Started(i) =>
         /\ Len(calls[i]) = 1
         /\ calls[i][1].depth = args[i].depth
         /\ (args[i].nodeId # None /\ args[i].nodeId[1] # "") =>
              /\ calls[i][1].method = "getNode"
              /\ calls[i][1].nodeId = args[i].nodeId[1]
              /\ requests[i][1].path = "nodes"
              /\ requests[i][1].ids = args[i].nodeId[1]
         /\ (args[i].nodeId = None \/ args[i].nodeId = Some("")) =>
              /\ calls[i][1].method = "getFile"
              /\ requests[i][1].path = "files"

\* An invocation given nodeId 1:2 was served through getNode for 1:2.
C10_Witness ==
  \E i \in Invocations :
    /\ Succeeded(i)
    /\ args[i].nodeId = Some("1:2")
    /\ calls[i] = << [method |-> "getNode", nodeId |-> "1:2", depth |-> args[i].depth] >>
    /\ ResultOf(i).nodes[1].id = "1:2"

\* ------------------------------------------------------------------------
\* Reading the image tool
\* ------------------------------------------------------------------------

ImagesDone == imgPc = "done" /\ Len(imgResponses) = 1
ImagesText == imgResponses[1].content[1].text
ImagesAnswered == ImagesDone /\ ~IsErrorResponse(imgResponses[1])

\* The requested node's file was handed to the downloader and written.
Downloaded(n) ==
  /\ n.fileName \notin brokenFiles
  /\ \E j \in 1..Len(handed) : handed[j].fileName = n.fileName

\* The URL the remote API has for a requested node, if any: the URL of its
\* image reference, or of its rendering in the format of its file name.
UrlFor(n) ==
  IF TruthyText(n.imageRef)
  THEN (IF n.imageRef[1] \in fillUrls THEN Some(FillUrl(n.imageRef[1])) ELSE None)
  ELSE (IF n.nodeId \in renderable
        THEN Some(RenderUrl(n.nodeId, IF EndsWith(n.fileName, ".svg") THEN "svg" ELSE "png"))
        ELSE None)

\* ------------------------------------------------------------------------
\* C11  A failed download is reported
\* ------------------------------------------------------------------------

\* C11: when the tool has answered and at least one requested node (image
\* fill or rendering) is without a downloaded file, be it because no URL
\* was resolved for it, the answer is the error response or the text
\* "Failed", never "Success, ...".
C11_FailureReported ==
  (ImagesDone /\ \E j \in 1..Len(imgNodes) : ~Downloaded(imgNodes[j])) =>
    (IsErrorResponse(imgResponses[1]) \/ ImagesText.head = "Failed")

\* The text "Failed" is never the answer.
FailedNeverReported ==
  \A j \in 1..Len(imgResponses) : imgResponses[j].content[1].text.head # "Failed"

\* ------------------------------------------------------------------------
\* C12  GlobalVariableTable lifecycle
\* ------------------------------------------------------------------------

\* The style-bearing values of a node, in the order they are interned.
PropValues(styles) ==
  LET Present(p) == p \in DOMAIN styles
      present == SelectSeq(StyleProps, Present)
  IN [j \in 1..Len(present) |-> styles[present[j]]]

\* The style-bearing values a run meets, in the order of the walk: a
\* retained node's own values, then those of its subtree, then those of its
\* later siblings.
RECURSIVE StyleVisits(_, _, _, _)
StyleVisits(kids, j, depth, maxDepth) ==
  IF j > Len(kids) \/ ~WithinDepth(depth, maxDepth) THEN <<>>
  ELSE (IF Retained(kids[j]) THEN PropValues(kids[j].styles) ELSE <<>>)
       \o StyleVisits(kids[j].children, 1, depth + 1, maxDepth)
       \o StyleVisits(kids, j + 1, depth, maxDepth)

\* The table of a run after its first k intern calls.
RECURSIVE TableAfter(_, _)
TableAfter(values, k) ==
  IF k = 0 THEN <<>> ELSE Intern(TableAfter(values, k - 1), values[k]).table

\* The keys of the first k values, each once, in order of first occurrence.
RECURSIVE FirstKeys(_, _)
FirstKeys(values, k) ==
  IF k = 0 THEN <<>>
  ELSE LET prev == FirstKeys(values, k - 1)
           key == KeyOf(Normalize(values[k]))
       IN IF \E j \in 1..Len(prev) : prev[j] = key THEN prev ELSE Append(prev, key)

IsPrefix(a, b) == Len(a) <= Len(b) /\ SubSeq(b, 1, Len(a)) = a

\* The values the run of invocation i met, from the raw response it fetched.
VisitsOf(i) ==
  LET roots == Roots(fetched[i][1].value)
  IN StyleVisits([j \in 1..Len(roots) |-> roots[j][1]], 1, 0, None)

\* C12: during the simplification run of an invocation every intern call
\* leaves the table it found as a prefix of the table it leaves (no key
\* removed, no value replaced, no entry moved); the table the run ends with
\* is the design's globalVars, its keys each once and in order of first
\* occurrence; and from the moment the service has the design, through the
\* logging and the handler's split up to the tool result, the design's
\* table, the logged table and the globalVars section are that same table.
C12_TableLifecycle ==
  \A i \in Invocations :
    design[i] # None =>
      LET values == VisitsOf(i)
          T == design[i][1].globalVars
      IN /\ \A k \in 1..Len(values) :
              IsPrefix(TableAfter(values, k - 1), TableAfter(values, k))
         /\ T = TableAfter(values, Len(values))
         /\ [j \in 1..Len(T) |-> T[j].key] = FirstKeys(values, Len(values))
         /\ \A j, k \in 1..Len(T) : T[j].key = T[k].key => j = k
         /\ T = ParseFigmaResponse(fetched[i][1].value, None).design.globalVars
         /\ logFiles["figma-simplified.yml"] # None =>
              logFiles["figma-simplified.yml"][1].yaml.globalVars = T
         /\ Done(i) => (Succeeded(i) /\ ResultOf(i).globalVars = T)

\* A run met a value whose key was in the table already, ended with a table
\* of three entries, and its design was logged, split and returned.
C12_Witness ==
  \E i \in Invocations :
    /\ Succeeded(i)
    /\ Len(design[i][1].globalVars) = 3
    /\ Len(VisitsOf(i)) > 3
    /\ logFiles["figma-simplified.yml"] # None
    /\ ResultOf(i).globalVars = design[i][1].globalVars

\* ------------------------------------------------------------------------
\* C13  Auth header selection
\* ------------------------------------------------------------------------

AuthHeaderNames == {"Authorization", "X-Figma-Token"}

\* The authentication headers of a request.
AuthPart(headers) == [h \in (DOMAIN headers) \cap AuthHeaderNames |-> headers[h]]

\* OAuth was requested and an OAuth token was given.
OAuthChosen(opts) ==
  /\ opts.useOAuth = Some(TRUE)
  /\ opts.figmaOAuthToken # None /\ opts.figmaOAuthToken[1] # <<>>

\* The API key the service was given, or the empty string.
GivenApiKey(opts) == IF opts.figmaApiKey = None THEN <<>> ELSE opts.figmaApiKey[1]

\* C13: every request the service has sent, for either tool, carries
\* exactly one authentication header: Authorization: Bearer <oauthToken>
\* if and only if useOAuth was requested and the OAuth token is non-empty,
\* otherwise X-Figma-Token: <apiKey>; all requests of the service carry the
\* same one, and each request sent has its headers.
C13_AuthHeader ==
  /\ Len(headersSent) = Len(requests[1]) + Len(imgRequests)
  /\ \A j \in 1..Len(headersSent) :
       LET auth == AuthPart(headersSent[j])
       IN /\ Cardinality(DOMAIN auth) = 1
          /\ OAuthChosen(authOptions) <=> DOMAIN auth = {"Authorization"}
          /\ OAuthChosen(authOptions) =>
               auth["Authorization"] = <<"Bearer ">> \o authOptions.figmaOAuthToken[1]
          /\ ~OAuthChosen(authOptions) =>
               auth["X-Figma-Token"] = GivenApiKey(authOptions)
          /\ auth = AuthPart(headersSent[1])

\* A service asked for OAuth without a token has sent the requests of both
\* tools, four in all, under its API key.
C13_Witness ==
  /\ authOptions.useOAuth = Some(TRUE)
  /\ authOptions.figmaOAuthToken = Some(<<>>)
  /\ Len(requests[1]) = 1
  /\ Len(imgRequests) = 3
  /\ \A j \in 1..Len(headersSent) :
       AuthPart(headersSent[j]) = ("X-Figma-Token" :> <<"figd_key">>)

\* ------------------------------------------------------------------------
\* C14  getImages format fidelity
\* ------------------------------------------------------------------------

\* The nodes getImages was called with.
Rendered == RenderRequests(imgNodes, 1)

\* Every URL handed to the downloader for a node of getImages is the URL of
\* that node's rendering in the node's own file type.
OwnFormatUrls ==
  \A r \in 1..Len(Rendered), j \in 1..Len(handed) :
    handed[j].fileName = Rendered[r].fileName =>
      handed[j].imageUrl = RenderUrl(Rendered[r].nodeId, Rendered[r].fileType)

\* A render request is issued for a format only if a node asks for it, and
\* it names the nodes that do.
RequestsPerFormat ==
  \A q \in 1..Len(imgRequests) :
    imgRequests[q].path = "images" =>
      /\ \E r \in 1..Len(Rendered) : Rendered[r].fileType = imgRequests[q].format
      /\ imgRequests[q].ids = IdsOfType(Rendered, 1, imgRequests[q].format)

\* Some node id is asked for both as png and as svg.
SameIdBothFormats ==
  \E a, b \in 1..Len(Rendered) :
    /\ Rendered[a].nodeId = Rendered[b].nodeId
    /\ Rendered[a].fileType # Rendered[b].fileType

\* C14: for every requested node the URL handed to the downloader is the
\* one the render request of the node's own file type returned, also when
\* one node id is requested both as png and as svg in one call; a render
\* request is issued for a format only when a node asks for that format.
C14_FormatFidelity == OwnFormatUrls /\ RequestsPerFormat

\* The same when no node id is asked for in both formats.
FormatFidelityDistinctIds == ~SameIdBothFormats => C14_FormatFidelity

\* ------------------------------------------------------------------------
\* C15  getImageFills positional result
\* ------------------------------------------------------------------------

\* The nodes getImageFills was called with.
Fills == ImageFills(imgNodes, 1)

\* The lookup requests issued.
LookupRequests == { q \in 1..Len(imgRequests) : imgRequests[q] = FillsEndpoint }

\* C15: called with an empty list, getImageFills issues no request and
\* returns the empty list; called with nodes, it issues exactly one lookup
\* request, and the list it returns has the length of its input, entry j
\* being the empty string when node j's imageRef has no URL in the lookup
\* response and otherwise the result of the download of that URL to node
\* j's file name; it returns no list only when the lookup or a download
\* failed.
C15_ImageFillsPositional ==
  imgPc # "idle" =>
    /\ Fills = <<>> =>
         /\ LookupRequests = {}
         /\ lookup = None
         /\ fillDownloads = Some([ok |-> TRUE, value |-> <<>>])
    /\ Fills # <<>> =>
         /\ Cardinality(LookupRequests) = 1
         /\ fillDownloads # None => lookup # None
         /\ (fillDownloads # None /\ fillDownloads[1].ok) =>
              LET list == fillDownloads[1].value
              IN /\ Len(list) = Len(Fills)
                 /\ \A j \in 1..Len(Fills) :
                      IF Fills[j].imageRef \in fillUrls
                      THEN /\ list[j] = LocalPath \o Fills[j].fileName
                           /\ \E h \in 1..Len(handed) :
                                handed[h] = [fileName |-> Fills[j].fileName,
                                             localPath |-> LocalPath,
                                             imageUrl |-> FillUrl(Fills[j].imageRef)]
                      ELSE list[j] = <<>>
         /\ Rejected(fillDownloads) =>
              \/ ~lookup[1].ok
              \/ \E j \in 1..Len(Fills) :
                   Fills[j].imageRef \in fillUrls /\ Fills[j].fileName \in brokenFiles

\* getImageFills returned, for two nodes of which only the second has a
\* URL, the empty string followed by the second node's file.
C15_Witness ==
  /\ Len(Fills) = 2
  /\ Fills[1].imageRef \notin fillUrls
  /\ Fills[2].imageRef \in fillUrls
  /\ fillDownloads # None /\ fillDownloads[1].ok
  /\ fillDownloads[1].value = << <<>>, LocalPath \o Fills[2].fileName >>

\* getImageFills was called with no node and returned the empty list.
EmptyFillsReturned ==
  /\ imgPc # "idle"
  /\ Len(imgNodes) > 0
  /\ Fills = <<>>
  /\ fillDownloads = Some([ok |-> TRUE, value |-> <<>>])

====
